---- MODULE Spec2Model ----
(***************************************************************************)
(* The authenticated-request pipeline of rate_tv_frontend:                 *)
(*   src/composables/useAuth.ts     session state, login / refresh /       *)
(*                                  logout / initialize                    *)
(*   src/composables/useAuthApi.ts  refreshQueue, createFetchOptions       *)
(*                                  (onRequest, onResponseError), request  *)
(*                                                                         *)
(* Scheduling is the browser event loop.  One action of the model is one   *)
(* task: the synchronous code of a caller, or the arrival of one network   *)
(* response followed by the chain of promise continuations it resumes, up  *)
(* to the next network call.  Continuations of promises that were settled  *)
(* synchronously (an async function that throws before its first await)    *)
(* are kept in the queue `micro`: callers' synchronous code may still run  *)
(* before them, network responses may not.                                 *)
(*                                                                         *)
(* Framework behaviour the code relies on is modelled as documented:       *)
(* a Vue `computed` caches its value until a reactive value it read        *)
(* changes (isTokenExpired), and $fetch retries a request without payload  *)
(* once on the statuses of RetryStatusCodes unless told otherwise.         *)
(*                                                                         *)
(* Spec         callers use post / put / delete, without options           *)
(* LiveSpec     Spec with the fairness of the event loop and the network   *)
(* SpecOptions  callers pass headers of their own                          *)
(* SpecGet      callers use get                                            *)
(* SpecApi      pages use the helper of src/composables/useApi.ts          *)
(***************************************************************************)
EXTENDS Integers, Sequences, FiniteSets, TLC

\* ------------------------------------------------------------- bounds
\* Invocations the application code makes in one run, in all: useAuth(),
\* login(), logout(), refreshAccessToken() and gateway calls, a retry of
\* $fetch counted as one more.  The n-th invocation is named n.
MaxInvocations == 3

\* ---------------------------------------------------- program constants
ExpiryBufferMs == 10000

Calls == 1..MaxInvocations

\* ----------------------------------------------------------- JWT values
\* `null` of the source; a record, so that it compares with token records.
Null == [null |-> TRUE]

\* Payloads the auth server may sign (JwtPayload); roles is optional.
JwtPayloads ==
  { [sub |-> "u1", exp |-> 30, iat |-> 0, roles |-> <<"admin">>, email |-> "u1@x"],
    [sub |-> "u2", exp |-> 60, iat |-> 0, email |-> "u2@x"] }

Roles == {"admin", "user"}

\* Instants of Date.now() the model visits: just before and at the expiry
\* threshold of a token with exp = 30.
Times == <<19999, 20000>>

\* An access token string: a signed payload, or a string jwtDecode rejects.
AccessTokensWithId(n) ==
  { [id |-> n, valid |-> TRUE, payload |-> p] : p \in JwtPayloads }
    \cup { [id |-> n, valid |-> FALSE] }

RefreshTokenWithId(n) == [rid |-> n]

\* The cookies and the useState entries are keyed by name: every useAuth()
\* instance of the page works on the same four values.
VARIABLES
  accessToken,    \* useCookie("access_token")
  refreshToken,   \* useCookie("refresh_token")
  user,           \* useState("auth_user")
  loading,        \* useState("auth_loading")
  refreshQueue,   \* module-level handle of useAuthApi.ts: 0 is null, else the call that started it
  calls,          \* per gateway call: position and what it observed
  net,            \* outstanding requests to /api/auth/{login,refresh,logout}
  micro,          \* continuations of already settled promises, in order
  now,            \* index into Times: Date.now()
  issued,         \* tokens the auth server has issued so far
  mounted,        \* some useAuth() has been called
  ops,            \* invocations so far
  ev,             \* what the last task did, in order
  expiredCache,   \* per useAuth() instance: the cached value of its isTokenExpired computed
  loggedOut,      \* history: a logout() has completed and no login() has succeeded since
  api             \* useApi.ts: per call of a useApi() method, its position and its result

vars == <<accessToken, refreshToken, user, loading, refreshQueue, calls, net,
          micro, now, issued, mounted, ops, ev, expiredCache, loggedOut, api>>

\* ------------------------------------------------------------ helpers
\* The state a task works on, threaded through the handlers it runs:
\*   at, rt, user, loading   the session (useAuth.ts:14-29)
\*   rq, calls, net, micro   as the variables of the same meaning
\*   cache                   expiredCache
\*   lo                      loggedOut
\*   ev                      the events of this task
\*   exc                     the exception in flight (NoExc when none)
\*   susp                    the handler just run stopped at an await of a network call
NoExc == [none |-> TRUE]

AuthError(type, message) == [type |-> type, message |-> message]

Sess(w) == [accessToken |-> w.at, refreshToken |-> w.rt, user |-> w.user]

\* The log of what a task did (ev), for stating properties; no program state.
Emit(w, e) == [w EXCEPT !.ev = Append(@, e)]

\* `x || dflt` on a message string
OrElse(x, dflt) == IF x = "" THEN dflt ELSE x

\* jwtDecode(token) succeeds
Decodes(tok) == IF tok = Null THEN FALSE ELSE tok.valid

\* ------------------------------------------------- useAuth.ts: TokenStore
\* Variant: the user is not looked at.
isAuthenticated_tokenOnly(w) == w.at # Null

isAuthenticated(w) == w.at # Null /\ w.user # Null

\* The getter of the isTokenExpired computed, run at Date.now() = Times[now].
isTokenExpiredGetter(w) ==
  IF w.at = Null THEN TRUE
  ELSE IF ~Decodes(w.at) THEN TRUE
  ELSE Times[now] >= w.at.payload.exp * 1000 - ExpiryBufferMs

\* isTokenExpired.value read through instance inst.  A computed runs its
\* getter only when a reactive value it read has changed since the last run
\* (here accessToken); Date.now() is no reactive value, so the passing of
\* time alone never makes it run again.
isTokenExpired(w, inst) ==
  IF w.cache[inst] = "dirty" THEN isTokenExpiredGetter(w)
  ELSE w.cache[inst] = "yes"

\* The state after that read: the value is cached, and logged.
ReadIsTokenExpired(w, inst) ==
  LET v == isTokenExpired(w, inst)
  IN [Emit(w, [e |-> "isTokenExpired", inst |-> inst, value |-> v,
               accessToken |-> w.at, time |-> Times[now]])
        EXCEPT !.cache[inst] = IF v THEN "yes" ELSE "no"]

\* accessToken.value = v: the computeds that read it are marked dirty.
SetAccessToken(w, v) ==
  [w EXCEPT !.at = v,
            !.cache = IF v = w.at THEN @
                      ELSE [i \in DOMAIN @ |-> IF @[i] = "none" THEN "none" ELSE "dirty"]]

\* Variant: the roles of the payload are dropped.
parseUserFromToken_noRoles(tok) ==
  [id |-> tok.payload.sub, roles |-> <<>>, email |-> OrElse(tok.payload.email, "")]

parseUserFromToken(tok) ==
  [id |-> tok.payload.sub,
   roles |-> IF "roles" \in DOMAIN tok.payload THEN tok.payload.roles ELSE <<>>,
   email |-> OrElse(tok.payload.email, "")]

hasRole(w, role) ==
  IF w.user = Null THEN FALSE
  ELSE \E i \in DOMAIN w.user.roles : w.user.roles[i] = role

\* ------------------------------------------- useAuth.ts: refreshAccessToken
\* Up to the await of $fetch("/api/auth/refresh"): throws at once without a
\* refresh token, else posts it.  `who` names the awaiting caller.
\* Variant: the refresh token is posted without looking whether there is one.
refreshAccessToken_noGuard(w, who) ==
  [Emit(w, [e |-> "refreshAccessToken", phase |-> "call", by |-> who,
            error |-> NoExc, fetched |-> TRUE, pre |-> Sess(w), post |-> Sess(w)])
     EXCEPT !.net = @ \cup {[kind |-> "refresh", by |-> who, body |-> w.rt]},
            !.exc = NoExc, !.susp = TRUE]

refreshAccessToken(w, who) ==
  IF w.rt = Null
  THEN [Emit(w, [e |-> "refreshAccessToken", phase |-> "call", by |-> who,
                 error |-> AuthError("REFRESH_FAILED", "No refresh token available"),
                 fetched |-> FALSE, pre |-> Sess(w), post |-> Sess(w)])
          EXCEPT !.exc = AuthError("REFRESH_FAILED", "No refresh token available"),
                 !.susp = FALSE]
  ELSE [Emit(w, [e |-> "refreshAccessToken", phase |-> "call", by |-> who,
                 error |-> NoExc, fetched |-> TRUE, pre |-> Sess(w), post |-> Sess(w)])
          EXCEPT !.net = @ \cup {[kind |-> "refresh", by |-> who, body |-> w.rt]},
                 !.exc = NoExc, !.susp = TRUE]

\* Variant: the user is not set from the new token.
refreshAccessTokenResume_tokenOnly(w, who, resp) ==
  LET done(v, out, err) ==
        [Emit(v, [e |-> "refreshAccessToken", phase |-> "settle", by |-> who, out |-> out,
                  error |-> err, resp |-> resp, pre |-> Sess(w), post |-> Sess(v),
                  returned |-> IF out = "ok" THEN resp.accessToken ELSE Null])
           EXCEPT !.exc = err, !.susp = FALSE]
  IN IF resp.ok
     THEN LET w1 == SetAccessToken(w, resp.accessToken)
          IN IF Decodes(resp.accessToken)
             THEN done(w1, "ok", NoExc)
             ELSE done(w1, "fail", AuthError("REFRESH_FAILED", "Invalid token specified"))
     ELSE done(w, "fail",
               AuthError("REFRESH_FAILED", OrElse(resp.message, "Failed to refresh token")))

\* From the response on: resp is [ok |-> TRUE, accessToken |-> t] or
\* [ok |-> FALSE, message |-> m].
refreshAccessTokenResume(w, who, resp) ==
  LET done(v, out, err) ==
        [Emit(v, [e |-> "refreshAccessToken", phase |-> "settle", by |-> who, out |-> out,
                  error |-> err, resp |-> resp, pre |-> Sess(w), post |-> Sess(v),
                  returned |-> IF out = "ok" THEN resp.accessToken ELSE Null])
           EXCEPT !.exc = err, !.susp = FALSE]
  IN IF resp.ok
     THEN LET w1 == SetAccessToken(w, resp.accessToken)
          IN IF Decodes(resp.accessToken)
             THEN done([w1 EXCEPT !.user = parseUserFromToken(resp.accessToken)], "ok", NoExc)
             ELSE done(w1, "fail", AuthError("REFRESH_FAILED", "Invalid token specified"))
     ELSE done(w, "fail",
               AuthError("REFRESH_FAILED", OrElse(resp.message, "Failed to refresh token")))

\* ------------------------------------------------------ useAuth.ts: logout
\* The finally block.
\* `fetched` tells how the try block ended: "no" (no refresh token, nothing
\* sent), "ok", or "error" (caught and logged).
logoutFinally(w, who, fetched) ==
  LET v == [SetAccessToken(w, Null) EXCEPT !.rt = Null, !.user = Null, !.loading = FALSE,
                                           !.lo = TRUE]
  IN [Emit(v, [e |-> "logout", out |-> "ok", by |-> who, fetched |-> fetched,
               pre |-> Sess(w), post |-> Sess(v)])
        EXCEPT !.exc = NoExc, !.susp = FALSE]

\* Up to the await of $fetch("/api/auth/logout"), or to the end when there is
\* no refresh token to invalidate.
logout(w, who) ==
  LET w1 == [w EXCEPT !.loading = TRUE]
  IN IF w1.rt # Null
     THEN [w1 EXCEPT !.net = @ \cup {[kind |-> "logout", by |-> who, body |-> w1.rt]},
                     !.exc = NoExc, !.susp = TRUE]
     ELSE logoutFinally(w1, who, "no")

\* Variant: the state is cleared after the try block instead of in a finally
\* block, so an error of the server call skips it.
logoutResume_noFinally(w, who, resp) ==
  IF resp.ok THEN logoutFinally(w, who, "ok")
  ELSE LET v == [w EXCEPT !.loading = FALSE]
       IN [Emit(v, [e |-> "logout", out |-> "ok", by |-> who, fetched |-> "error",
                    pre |-> Sess(w), post |-> Sess(v)])
             EXCEPT !.exc = NoExc, !.susp = FALSE]

\* From the response on: an error is logged and swallowed.
logoutResume(w, who, resp) == logoutFinally(w, who, IF resp.ok THEN "ok" ELSE "error")

\* ------------------------------------------------------- useAuth.ts: login
login(w, who) ==
  [w EXCEPT !.loading = TRUE,
            !.net = @ \cup {[kind |-> "login", by |-> who, body |-> Null]},
            !.exc = NoExc, !.susp = TRUE]

\* resp is [ok |-> TRUE, accessToken |-> t, refreshToken |-> r] or
\* [ok |-> FALSE, message |-> m].
loginResume(w, who, resp) ==
  LET done(v, out, err) ==
        LET v1 == [v EXCEPT !.loading = FALSE]
        IN [Emit(v1, [e |-> "login", out |-> out, by |-> who, error |-> err, resp |-> resp,
                      pre |-> Sess(w), post |-> Sess(v1)])
              EXCEPT !.exc = err, !.susp = FALSE]
  IN IF resp.ok
     THEN LET w1 == [SetAccessToken(w, resp.accessToken) EXCEPT !.rt = resp.refreshToken]
          IN IF Decodes(resp.accessToken)
             THEN done([w1 EXCEPT !.user = parseUserFromToken(resp.accessToken),
                                  !.lo = FALSE], "ok", NoExc)
             ELSE done(w1, "fail", AuthError("INVALID_CREDENTIALS", "Invalid token specified"))
     ELSE done(w, "fail",
               AuthError("INVALID_CREDENTIALS", OrElse(resp.message, "Invalid credentials")))

\* -------------------------------------------------- useAuth.ts: initialize
\* The catch and finally blocks.
initializeCatch(w, who) ==
  LET v == [SetAccessToken(w, Null) EXCEPT !.rt = Null, !.user = Null, !.loading = FALSE]
  IN [Emit(v, [e |-> "initialize", out |-> "ok", by |-> who, refreshed |-> "fail",
               post |-> Sess(v)])
        EXCEPT !.exc = NoExc, !.susp = FALSE]

initializeFinally(w, who, refreshed) ==
  LET v == [w EXCEPT !.loading = FALSE]
  IN [Emit(v, [e |-> "initialize", out |-> "ok", by |-> who, refreshed |-> refreshed,
               post |-> Sess(v)])
        EXCEPT !.exc = NoExc, !.susp = FALSE]

\* Up to the await of refreshAccessToken(), or to the end.  A refresh that
\* throws at once rejects the awaited promise: the catch block runs as a
\* continuation (micro).
initialize(w, who) ==
  LET w0 == [Emit(w, [e |-> "initializeCall", by |-> who, pre |-> Sess(w)])
               EXCEPT !.loading = TRUE]
      w1 == IF w0.at # Null THEN ReadIsTokenExpired(w0, who.id) ELSE w0
  IN IF w1.at # Null
     THEN IF isTokenExpired(w0, who.id)
          THEN LET w2 == refreshAccessToken(w1, who)
               IN IF w2.susp
                  THEN w2
                  ELSE [w2 EXCEPT !.micro = Append(@, [k |-> "initializeCatch", by |-> who,
                                                       exc |-> w2.exc]),
                                  !.exc = NoExc, !.susp = TRUE]
          ELSE initializeFinally([w1 EXCEPT !.user = parseUserFromToken(w1.at)], who, "no")
     ELSE initializeFinally(w1, who, "no")

\* Variant: no catch block, only the finally block.
initializeResume_noCatch(w, who, resp) ==
  LET w1 == refreshAccessTokenResume(w, who, resp)
  IN initializeFinally(w1, who, IF w1.exc # NoExc THEN "fail" ELSE "ok")

\* After the awaited refreshAccessToken() settled with a response.
initializeResume(w, who, resp) ==
  LET w1 == refreshAccessTokenResume(w, who, resp)
  IN IF w1.exc # NoExc THEN initializeCatch(w1, who)
     ELSE initializeFinally(w1, who, "ok")


\* ------------------------------------------------------------ useAuthApi.ts
Undefined == [undefined |-> TRUE]

\* `Bearer ${token}`; the token may be null ("Bearer null")
Bearer(tok) == [bearer |-> tok]

\* { ...a, ...b } on header objects
Merge(a, b) == [k \in DOMAIN a \cup DOMAIN b |-> IF k \in DOMAIN b THEN b[k] ELSE a[k]]

NewCall ==
  [pc |-> "idle", inst |-> 0, retry |-> 0, retryOf |-> 0, leader |-> 0, stale |-> Null,
   options |-> [headers |-> Undefined], headers |-> Undefined, error |-> NoExc,
   sent |-> 0, logouts |-> 0, redirects |-> 0, hadToken |-> FALSE, hadUser |-> FALSE,
   refreshFetches |-> 0, refreshOutcome |-> "none"]

\* The headers of the fetch options: base headers merged with the caller's,
\* then every caller option spread over the result.
createFetchOptions(w, options) ==
  LET baseHeaders == [Authorization |-> Bearer(w.at), ContentType |-> "application/json"]
      headers == IF options.headers = Undefined THEN baseHeaders
                 ELSE Merge(baseHeaders, options.headers)
  IN IF options.headers = Undefined THEN [headers |-> headers]
     ELSE [headers |-> options.headers]

navigateTo(w, c) ==
  [Emit(w, [e |-> "navigateTo", path |-> "/signin", call |-> c, at |-> Sess(w)])
     EXCEPT !.calls[c].redirects = @ + 1]

\* $fetch hands the request to the network.
dispatch(w, c) ==
  [Emit(w, [e |-> "dispatch", call |-> c, headers |-> w.calls[c].headers, at |-> Sess(w),
            options |-> w.calls[c].options, refreshed |-> w.calls[c].leader # 0])
     EXCEPT !.calls[c].pc = "inflight", !.calls[c].sent = @ + 1]

\* onRequest after `await refreshQueue`: the Authorization header is rewritten
\* with the token of that moment, and the request goes out.
onRequestResume(w, c) ==
  LET currentHeaders == w.calls[c].headers
      w1 == [w EXCEPT !.calls[c].headers =
                        Merge(currentHeaders, [Authorization |-> Bearer(w.at)])]
  IN dispatch(w1, c)

RECURSIVE onRequestResumeAll(_, _)
onRequestResumeAll(w, cs) ==
  IF cs = {} THEN w
  ELSE LET c == CHOOSE x \in cs : \A y \in cs : x <= y
       IN onRequestResumeAll(onRequestResume(w, c), cs \ {c})

Awaiting(w) == {c \in Calls : w.calls[c].pc = "awaitRefresh"}

\* Variant: no finally block, the handle is never cleared.
refreshQueueSettle_noFinally(w, l) ==
  LET w1 == IF w.exc # NoExc
            THEN LET v == logout([w EXCEPT !.calls[l].logouts = @ + 1],
                                 [who |-> "refreshQueue", id |-> l])
                 IN navigateTo(v, l)
            ELSE w
      w2 == [w1 EXCEPT !.exc = NoExc,
                       !.calls[l].refreshOutcome = IF w.exc # NoExc THEN "fail" ELSE "ok"]
  IN onRequestResumeAll(w2, Awaiting(w2))

\* Variant: the catch block is empty.
refreshQueueSettle_emptyCatch(w, l) ==
  LET w2 == [w EXCEPT !.rq = 0, !.exc = NoExc,
                      !.calls[l].refreshOutcome = IF w.exc # NoExc THEN "fail" ELSE "ok"]
  IN onRequestResumeAll(w2, Awaiting(w2))

\* The body of the refreshQueue promise once `await auth.refreshAccessToken()`
\* has settled (w.exc): catch, finally, and then every call awaiting the handle.
refreshQueueSettle(w, l) ==
  LET w1 == IF w.exc # NoExc
            THEN LET v == logout([w EXCEPT !.calls[l].logouts = @ + 1],
                                 [who |-> "refreshQueue", id |-> l])
                 IN navigateTo(v, l)
            ELSE w
      w2 == [w1 EXCEPT !.rq = 0, !.exc = NoExc,
                       !.calls[l].refreshOutcome = IF w.exc # NoExc THEN "fail" ELSE "ok"]
  IN onRequestResumeAll(w2, Awaiting(w2))

\* onRequest up to its first await; with a token that is not expired it
\* returns at once and the request goes out.
onRequest(wr, c, inst) ==
  LET w == ReadIsTokenExpired(wr, inst) IN
  IF isTokenExpired(wr, inst)
  THEN LET w1 == [w EXCEPT !.calls[c].stale = w.at, !.calls[c].pc = "awaitRefresh"]
       IN IF w1.rq # 0
          THEN [w1 EXCEPT !.calls[c].leader = w1.rq]
          ELSE LET w2 == refreshAccessToken(w1, [who |-> "refreshQueue", id |-> c])
                   w3 == [w2 EXCEPT !.rq = c, !.calls[c].leader = c,
                                    !.calls[c].refreshOutcome = "pending",
                                    !.calls[c].refreshFetches =
                                       Cardinality({m \in w2.net \ w1.net : m.kind = "refresh"})]
               IN IF w2.susp THEN w3
                  ELSE [w3 EXCEPT !.micro = Append(@, [k |-> "refreshQueueSettle", by |-> c,
                                                       exc |-> w2.exc]),
                                  !.exc = NoExc]
  ELSE dispatch(w, c)

\* The methods for which $fetch does not retry unless told to.
PayloadMethods == {"post", "put", "patch", "delete"}

\* The retries $fetch makes when the fetch options name none, as here.
DefaultRetries(method) == IF method \in PayloadMethods THEN 0 ELSE 1

\* The response statuses on which $fetch retries.
RetryStatusCodes == {408, 409, 425, 429, 500, 502, 503, 504}

\* request(method, url, data, options)
request(w, c, inst, method, options) ==
  LET w0 == [w EXCEPT !.calls[c].hadToken = (w.at # Null),
                      !.calls[c].hadUser = (w.user # Null),
                      !.calls[c].inst = inst,
                      !.calls[c].retry = DefaultRetries(method)]
  IN IF ~isAuthenticated(w0)
     THEN [Emit(w0, [e |-> "request", out |-> "fail", call |-> c])
             EXCEPT !.calls[c].pc = "rejected",
                    !.calls[c].error = AuthError("UNAUTHORIZED", "Authentication required")]
     ELSE onRequest([w0 EXCEPT !.calls[c].options = options,
                               !.calls[c].headers = createFetchOptions(w0, options).headers],
                    c, inst)

\* The FetchError $fetch rejects with.
FetchError(status) == [type |-> "FetchError", message |-> "", status |-> status]

reject(w, c, status) ==
  [w EXCEPT !.calls[c].pc = "rejected", !.calls[c].error = FetchError(status)]

\* $fetch retries call c after this error status.
Retried(w, c, status) == w.calls[c].retry > 0 /\ status \in RetryStatusCodes

\* What $fetch does with an error response once onResponseError has run: it
\* rejects, or, with a retry left and a status it retries on, runs the request
\* again with the same options, the onRequest hook included.  The second
\* attempt is kept as a call record of its own (retryOf).
onError(w, c, status) ==
  IF Retried(w, c, status)
  THEN LET a == ops + 1
           w1 == [w EXCEPT !.calls[c].pc = "retried",
                           !.calls[a] = [w.calls[c] EXCEPT !.pc = "idle", !.retryOf = c,
                                                          !.retry = @ - 1, !.leader = 0,
                                                          !.stale = Null, !.sent = 0,
                                                          !.logouts = 0, !.redirects = 0,
                                                          !.refreshFetches = 0,
                                                          !.refreshOutcome = "none"]]
       IN onRequest(w1, a, w.calls[c].inst)
  ELSE reject(w, c, status)

\* Variant: every error status is treated as 401 is.
onResponseError_anyStatus(w, c, status) ==
  LET w1 == logout([w EXCEPT !.calls[c].logouts = @ + 1], [who |-> "onResponseError", id |-> c])
  IN IF w1.susp THEN [w1 EXCEPT !.calls[c].pc = "awaitLogout"]
     ELSE reject(navigateTo(w1, c), c, status)

\* onResponseError, up to the await of logout() or to the end.
onResponseError(w, c, status) ==
  IF status = 401
  THEN LET w1 == logout([w EXCEPT !.calls[c].logouts = @ + 1], [who |-> "onResponseError", id |-> c])
       IN IF w1.susp THEN [w1 EXCEPT !.calls[c].pc = "awaitLogout"]
          ELSE reject(navigateTo(w1, c), c, status)
  ELSE onError(w, c, status)

\* onResponseError after `await auth.logout()`.
onResponseErrorResume(w, c) == reject(navigateTo(w, c), c, 401)


\* ---------------------------------------------------------------- useApi.ts
\* Calls of useApi() methods in one run.
MaxApiCalls == 2

ApiCalls == 1..MaxApiCalls

\* get, post, put, patch and del have one and the same body, up to the
\* method (and body) handed to useFetch.
ApiMethods == {"GET", "POST", "PUT", "PATCH", "DELETE"}

\* What `await useFetch(...)` gives: { data, error } with error.value unset
\* and the data (null for an empty answer), with error.value set and no data,
\* or an exception.
UseFetchResults ==
  {[thrown |-> Null, data |-> d, error |-> Null] : d \in {Null, [body |-> "d"]}}
    \cup {[thrown |-> Null, data |-> Null, error |-> FetchError(s)] : s \in {404, 500}}
    \cup {[thrown |-> [type |-> "Error", message |-> "useFetch"], data |-> Null,
           error |-> Null]}

\* const response = { data: null, error: null, pending: true }
ApiResponse0 == [data |-> Null, error |-> Null, pending |-> TRUE]

\* Variant: no catch block; the error leaves the method.
useApiReturn_noCatch(response, fetched) ==
  LET exc == IF fetched.thrown # Null THEN fetched.thrown ELSE fetched.error
      r1 == IF exc = Null THEN [response EXCEPT !.data = fetched.data] ELSE response
  IN [response |-> [r1 EXCEPT !.pending = FALSE], exc |-> exc]

\* The method from the settling of useFetch on: try, catch, finally, return.
\* Gives the response object and the exception that leaves the method (none).
useApiReturn(response, fetched) ==
  LET exc == IF fetched.thrown # Null THEN fetched.thrown ELSE fetched.error
      r1 == IF exc = Null THEN [response EXCEPT !.data = fetched.data]
            ELSE [response EXCEPT !.error = exc]
  IN [response |-> [r1 EXCEPT !.pending = FALSE], exc |-> Null]

\* ---------------------------------------------------------------- tasks
World ==
  [at |-> accessToken, rt |-> refreshToken, user |-> user, loading |-> loading,
   rq |-> refreshQueue, calls |-> calls, net |-> net, micro |-> micro,
   cache |-> expiredCache, lo |-> loggedOut, ev |-> <<>>, exc |-> NoExc, susp |-> FALSE]

\* The state a task leaves behind (w is evaluated once).
Commit(w) ==
  \E v \in {w} :
    /\ accessToken' = v.at
    /\ refreshToken' = v.rt
    /\ user' = v.user
    /\ loading' = v.loading
    /\ refreshQueue' = v.rq
    /\ calls' = v.calls
    /\ net' = v.net
    /\ micro' = v.micro
    /\ ev' = v.ev
    /\ expiredCache' = v.cache
    /\ loggedOut' = v.lo
    /\ api' = api

Caller(id) == [who |-> "caller", id |-> id]

\* What the auth server may answer.
Failures == { [ok |-> FALSE, message |-> "Request failed"] }

\* Every token the server issues is a new one.
LoginResponses ==
  { [ok |-> TRUE, accessToken |-> t, refreshToken |-> RefreshTokenWithId(issued + 1)] :
      t \in AccessTokensWithId(issued + 1) } \cup Failures

RefreshResponses ==
  { [ok |-> TRUE, accessToken |-> t] : t \in AccessTokensWithId(issued + 1) } \cup Failures

Issue(resp) ==
  issued' = IF resp.ok THEN issued + 1 ELSE issued

\* useAuth(), on the client: the composable is set up and initialize() is started.
UseAuth ==
  /\ ops < MaxInvocations
  /\ Commit(initialize([World EXCEPT !.cache[ops + 1] = "dirty"],
                        [who |-> "initialize", id |-> ops + 1]))
  /\ mounted' = TRUE
  /\ ops' = ops + 1
  /\ UNCHANGED <<now, issued>>

Login ==
  /\ mounted /\ ops < MaxInvocations
  /\ Commit(login(World, Caller(ops + 1)))
  /\ ops' = ops + 1
  /\ UNCHANGED <<now, issued, mounted>>

Logout ==
  /\ mounted /\ ops < MaxInvocations
  /\ Commit(logout(World, Caller(ops + 1)))
  /\ ops' = ops + 1
  /\ UNCHANGED <<now, issued, mounted>>

\* auth.refreshAccessToken() called by a page; a rejection goes to that caller.
RefreshAccessToken ==
  /\ mounted /\ ops < MaxInvocations
  /\ Commit([refreshAccessToken(World, Caller(ops + 1)) EXCEPT !.exc = NoExc])
  /\ ops' = ops + 1
  /\ UNCHANGED <<now, issued, mounted>>

\* The useAuth() instances set up so far.
Instances == {i \in DOMAIN expiredCache : expiredCache[i] # "none"}

\* post / put / delete of a useAuthApi() instance ("post" stands for the three)
Request ==
  /\ mounted /\ ops < MaxInvocations
  /\ \E inst \in Instances :
       Commit(request(World, ops + 1, inst, "post", [headers |-> Undefined]))
  /\ ops' = ops + 1
  /\ UNCHANGED <<now, issued, mounted>>

\* The next continuation of a promise that settled without the network.
RunMicro ==
  /\ micro # <<>>
  /\ LET m == Head(micro)
         w == [World EXCEPT !.micro = Tail(micro), !.exc = m.exc]
     IN CASE m.k = "initializeCatch" -> Commit(initializeCatch(w, m.by))
          [] m.k = "refreshQueueSettle" -> Commit(refreshQueueSettle(w, m.by))
  /\ UNCHANGED <<now, issued, mounted, ops>>

Take(m) == [World EXCEPT !.net = net \ {m}]

LoginResponse(m) ==
  /\ micro = <<>> /\ m.kind = "login"
  /\ \E resp \in LoginResponses :
       /\ Commit([loginResume(Take(m), m.by, resp) EXCEPT !.exc = NoExc])
       /\ Issue(resp)
  /\ UNCHANGED <<now, mounted, ops>>

RefreshResponse(m) ==
  /\ micro = <<>> /\ m.kind = "refresh"
  /\ \E resp \in RefreshResponses :
       /\ CASE m.by.who = "refreshQueue" ->
                 Commit(refreshQueueSettle(refreshAccessTokenResume(Take(m), m.by, resp), m.by.id))
            [] m.by.who = "initialize" ->
                 Commit(initializeResume(Take(m), m.by, resp))
            [] m.by.who = "caller" ->
                 Commit([refreshAccessTokenResume(Take(m), m.by, resp) EXCEPT !.exc = NoExc])
       /\ Issue(resp)
  /\ UNCHANGED <<now, mounted, ops>>

LogoutResponse(m) ==
  /\ micro = <<>> /\ m.kind = "logout"
  /\ \E resp \in {[ok |-> TRUE]} \cup Failures :
       CASE m.by.who = "onResponseError" ->
              Commit(onResponseErrorResume(logoutResume(Take(m), m.by, resp), m.by.id))
         [] OTHER -> Commit(logoutResume(Take(m), m.by, resp))
  /\ UNCHANGED <<now, issued, mounted, ops>>

\* The downstream server answers call c: 200, 401, or another error status.
ApiResponse(c) ==
  /\ micro = <<>> /\ calls[c].pc = "inflight"
  /\ \E status \in {200, 401, 500} :
       IF status = 200
       THEN /\ Commit([Emit(World, [e |-> "response", call |-> c, status |-> status])
                         EXCEPT !.calls[c].pc = "resolved"])
            /\ ops' = ops
       ELSE /\ Retried(World, c, status) => ops < MaxInvocations
            /\ Commit(onResponseError(World, c, status))
            /\ ops' = IF Retried(World, c, status) THEN ops + 1 ELSE ops
  /\ UNCHANGED <<now, issued, mounted>>

\* Date.now() advances.
Tick ==
  /\ now < Len(Times)
  /\ now' = now + 1
  /\ ev' = <<>>
  /\ UNCHANGED <<accessToken, refreshToken, user, loading, refreshQueue, calls, net,
                 micro, issued, mounted, ops, expiredCache, loggedOut, api>>

\* At page load: no cookies, or the token cookies of an earlier session.
Init ==
  /\ \/ accessToken = Null /\ refreshToken = Null
     \/ accessToken \in AccessTokensWithId(0) /\ refreshToken = RefreshTokenWithId(0)
  /\ user = Null
  /\ loading = FALSE
  /\ refreshQueue = 0
  /\ calls = [c \in Calls |-> NewCall]
  /\ net = {}
  /\ micro = <<>>
  /\ now = 1
  /\ issued = 0
  /\ mounted = FALSE
  /\ ops = 0
  /\ ev = <<>>
  /\ expiredCache = [i \in 1..MaxInvocations |-> "none"]
  /\ loggedOut = FALSE
  /\ api = [i \in ApiCalls |-> [pc |-> "idle"]]

\* The options a caller of get / post / put / delete passes: none, an extra
\* header, or a Content-Type of its own.
CallerOptions ==
  {[headers |-> Undefined],
   [headers |-> [XTrace |-> "1"]],
   [headers |-> [ContentType |-> "text/plain"]]}

\* post / put / delete called with options
RequestWithOptions ==
  /\ mounted /\ ops < MaxInvocations
  /\ \E inst \in Instances, options \in CallerOptions :
       Commit(request(World, ops + 1, inst, "post", options))
  /\ ops' = ops + 1
  /\ UNCHANGED <<now, issued, mounted>>

\* get of a useAuthApi() instance
Get ==
  /\ mounted /\ ops < MaxInvocations
  /\ \E inst \in Instances :
       Commit(request(World, ops + 1, inst, "get", [headers |-> Undefined]))
  /\ ops' = ops + 1
  /\ UNCHANGED <<now, issued, mounted>>

Next ==
  \/ UseAuth
  \/ Login
  \/ Logout
  \/ RefreshAccessToken
  \/ Request
  \/ RunMicro
  \/ \E m \in net : LoginResponse(m)
  \/ \E m \in net : RefreshResponse(m)
  \/ \E m \in net : LogoutResponse(m)
  \/ \E c \in Calls : ApiResponse(c)
  \/ Tick

Spec == Init /\ [][Next]_vars

\* Scheduling for progress: the event loop always runs a queued continuation,
\* and every request to the auth server or the downstream server is answered.
Settle ==
  \/ RunMicro
  \/ \E m \in net : LoginResponse(m)
  \/ \E m \in net : RefreshResponse(m)
  \/ \E m \in net : LogoutResponse(m)
  \/ \E c \in Calls : ApiResponse(c)

Fairness == WF_vars(Settle)

LiveSpec == Spec /\ Fairness

\* A page calls a method of useApi(): the response object is made and
\* useFetch is awaited.
UseApiCall ==
  \E i \in ApiCalls, method \in ApiMethods :
    /\ api[i].pc = "idle"
    /\ \A j \in ApiCalls : j < i => api[j].pc # "idle"
    /\ api' = [api EXCEPT ![i] = [pc |-> "awaiting", method |-> method,
                                  response |-> ApiResponse0]]
    /\ UNCHANGED <<accessToken, refreshToken, user, loading, refreshQueue, calls, net,
                   micro, now, issued, mounted, ops, ev, expiredCache, loggedOut>>

\* useFetch settles and the method runs to its end.
UseApiReturn ==
  \E i \in ApiCalls, fetched \in UseFetchResults :
    /\ api[i].pc = "awaiting"
    /\ LET r == useApiReturn(api[i].response, fetched)
       IN api' = [api EXCEPT ![i] = [pc |-> IF r.exc = Null THEN "returned" ELSE "failed",
                                     method |-> api[i].method, fetched |-> fetched,
                                     response |-> r.response, exc |-> r.exc]]
    /\ UNCHANGED <<accessToken, refreshToken, user, loading, refreshQueue, calls, net,
                   micro, now, issued, mounted, ops, ev, expiredCache, loggedOut>>

NextApi ==
  \/ UseApiCall
  \/ UseApiReturn

\* Pages that use the helper useApi().
SpecApi == Init /\ [][NextApi]_vars

\* The same program with callers that pass options to the gateway.
NextOptions ==
  \/ UseAuth
  \/ Login
  \/ Logout
  \/ RefreshAccessToken
  \/ RequestWithOptions
  \/ RunMicro
  \/ \E m \in net : LoginResponse(m)
  \/ \E m \in net : RefreshResponse(m)
  \/ \E m \in net : LogoutResponse(m)
  \/ \E c \in Calls : ApiResponse(c)
  \/ Tick

SpecOptions == Init /\ [][NextOptions]_vars

\* The same program with callers that use the gateway's get.
NextGet ==
  \/ UseAuth
  \/ Login
  \/ Logout
  \/ RefreshAccessToken
  \/ Get
  \/ RunMicro
  \/ \E m \in net : LoginResponse(m)
  \/ \E m \in net : RefreshResponse(m)
  \/ \E m \in net : LogoutResponse(m)
  \/ \E c \in Calls : ApiResponse(c)
  \/ Tick

SpecGet == Init /\ [][NextGet]_vars


\* ================================================================ claims
Session == [accessToken |-> accessToken, refreshToken |-> refreshToken, user |-> user]

NoSession == [accessToken |-> Null, refreshToken |-> Null, user |-> Null]

Events(name) == {i \in DOMAIN ev : ev[i].e = name}

\* The calls that awaited the refresh started by call l (l among them).
Attached(l) == {c \in Calls : calls[c].leader = l}

RefreshSettled(l) == calls[l].refreshOutcome \in {"ok", "fail"}

\* The roles a token's payload carries.
RolesIn(tok) ==
  IF "roles" \in DOMAIN tok.payload
  THEN {tok.payload.roles[i] : i \in DOMAIN tok.payload.roles}
  ELSE {}

\* C1: for the N >= 1 gateway calls that found the token expired and awaited
\* one refresh handle, exactly one POST /api/auth/refresh was issued, and once
\* it has settled all N have the same outcome: on success each was sent with
\* the same (new) token, on failure each failed with the refresh failure.
C1_SingleFlightSameOutcome ==
  \A l \in Calls :
    (calls[l].leader = l /\ RefreshSettled(l)) =>
      /\ calls[l].refreshFetches = 1
      /\ \A c \in Attached(l) :
           IF calls[l].refreshOutcome = "ok"
           THEN /\ calls[c].sent = 1
                /\ calls[c].headers.Authorization = calls[l].headers.Authorization
                /\ calls[c].headers.Authorization # Bearer(calls[c].stale)
           ELSE /\ calls[c].pc = "rejected"
                /\ calls[c].error.type = "REFRESH_FAILED"

\* C2: at most one request to the refresh endpoint is outstanding, counting
\* those of gateway calls and those of initialize().
C2_AtMostOneRefreshOutstanding ==
  Cardinality({m \in net : m.kind = "refresh" /\ m.by.who \in {"refreshQueue", "initialize"}}) <= 1

\* C3: a gateway call whose awaited refresh failed is abandoned: it fails
\* with the refresh failure and its downstream request is never sent.
C3_AbandonedWhenRefreshFails ==
  \A c \in Calls :
    (calls[c].leader # 0 /\ calls[calls[c].leader].refreshOutcome = "fail") =>
      /\ calls[c].sent = 0
      /\ calls[c].pc = "rejected"
      /\ calls[c].error.type = "REFRESH_FAILED"

\* C4: a gateway call that found the token expired is sent only after the
\* refresh it awaited has settled, and never with the token it found expired.
C4_NeverSentWithStaleToken ==
  \A c \in Calls :
    (calls[c].leader # 0 /\ calls[c].sent > 0) =>
      /\ RefreshSettled(calls[c].leader)
      /\ calls[c].headers.Authorization # Bearer(calls[c].stale)

\* C5: a gateway call made while the access token or the user is absent fails
\* with AuthError UNAUTHORIZED; no downstream request and no refresh is issued
\* for it.
C5_UnauthenticatedCallFailsWithoutNetwork ==
  \A c \in Calls :
    (calls[c].pc # "idle" /\ ~(calls[c].hadToken /\ calls[c].hadUser)) =>
      /\ calls[c].pc = "rejected"
      /\ calls[c].error = AuthError("UNAUTHORIZED", "Authentication required")
      /\ calls[c].sent = 0
      /\ calls[c].leader = 0
      /\ calls[c].refreshFetches = 0
      /\ \A m \in net : m.by.id # c

\* C5 witness: a call made with the token cookie present but no user yet.
C5_Witness ==
  \E c \in Calls : calls[c].pc = "rejected" /\ calls[c].hadToken /\ ~calls[c].hadUser

\* C6: a gateway call answered with 401 has caused exactly one logout and one
\* redirect over its whole lifetime, and fails with that error.
C6_OneLogoutOneRedirectOn401 ==
  \A c \in Calls :
    (calls[c].pc = "rejected" /\ calls[c].error = FetchError(401)) =>
      calls[c].logouts = 1 /\ calls[c].redirects = 1

\* C7: every logout() completes without an error, and at its completion the
\* access token, the refresh token and the user are absent, whether the
\* server call succeeded, failed or was skipped.
C7_LogoutAlwaysClears ==
  \A i \in Events("logout") :
    /\ ev[i].out = "ok"
    /\ ev[i].fetched \in {"no", "ok", "error"}
    /\ ev[i].post = NoSession

\* C7 witness: a logout whose server call failed, with a session to clear.
C7_Witness ==
  \E i \in Events("logout") :
    ev[i].fetched = "error" /\ ev[i].pre.accessToken # Null /\ ev[i].pre.user # Null

\* C8: when login() succeeds, the tokens are the ones of the response, the
\* user is the identity of the new access token, isAuthenticated is true and
\* hasRole(r) holds exactly for the roles of that token.
C8_LoginSuccessSetsSession ==
  \A i \in Events("login") :
    ev[i].out = "ok" =>
      /\ accessToken = ev[i].resp.accessToken
      /\ refreshToken = ev[i].resp.refreshToken
      /\ user # Null
      /\ user.id = ev[i].resp.accessToken.payload.sub
      /\ user.email = ev[i].resp.accessToken.payload.email
      /\ isAuthenticated([at |-> accessToken, user |-> user])
      /\ \A r \in Roles : hasRole([user |-> user], r) <=> r \in RolesIn(ev[i].resp.accessToken)

\* C8 witness: a login that replaced another user's session with a token
\* that carries roles.
C8_Witness ==
  \E i \in Events("login") :
    /\ ev[i].out = "ok"
    /\ RolesIn(ev[i].resp.accessToken) # {}
    /\ ev[i].pre.user # Null
    /\ ev[i].pre.user # user

\* C9: whenever login() fails it fails with AuthError INVALID_CREDENTIALS and
\* the access token, refresh token and user are as before the response.
C9_LoginFailureChangesNothing ==
  \A i \in Events("login") :
    ev[i].out = "fail" =>
      /\ ev[i].error.type = "INVALID_CREDENTIALS"
      /\ ev[i].post = ev[i].pre

\* C10: refreshAccessToken() called without a refresh token fails with
\* AuthError REFRESH_FAILED "No refresh token available", sends nothing and
\* changes no session state.
C10_RefreshWithoutTokenFailsAtOnce ==
  /\ \A i \in Events("refreshAccessToken") :
       (ev[i].phase = "call" /\ ev[i].pre.refreshToken = Null) =>
         /\ ev[i].error = AuthError("REFRESH_FAILED", "No refresh token available")
         /\ ~ev[i].fetched
         /\ ev[i].post = ev[i].pre
  /\ \A m \in net : m.kind = "refresh" => m.body # Null

\* C10 witness: such a call, made by a gateway call's pre-dispatch hook or by a page.
C10_Witness ==
  \E i \in Events("refreshAccessToken") :
    ev[i].phase = "call" /\ ev[i].pre.refreshToken = Null /\ ~ev[i].fetched

\* C11: whenever refreshAccessToken() fails (at the call or when the response
\* is handled) it fails with AuthError REFRESH_FAILED and the access token,
\* refresh token and user are as they were before.
C11_RefreshFailureChangesNothing ==
  \A i \in Events("refreshAccessToken") :
    ev[i].error # NoExc =>
      /\ ev[i].error.type = "REFRESH_FAILED"
      /\ ev[i].post = ev[i].pre

\* C12: every read of isTokenExpired gives TRUE when there is no access token,
\* TRUE when it does not decode, and otherwise tells whether the time of the
\* read is at or past exp * 1000 - 10000.
C12_ExpiredIffPastBuffer ==
  \A i \in Events("isTokenExpired") :
    ev[i].value = (IF ev[i].accessToken = Null THEN TRUE
                   ELSE IF ~Decodes(ev[i].accessToken) THEN TRUE
                   ELSE ev[i].time >= ev[i].accessToken.payload.exp * 1000 - ExpiryBufferMs)

\* An initialize() has started and not yet completed.
InitializeRunning ==
  \/ \E m \in net : m.by.who = "initialize"
  \/ \E i \in DOMAIN micro : micro[i].k = "initializeCatch"

\* C13: once the page is set up and no initialize() is under way, the user is
\* present exactly when the access token is present and decodes, and is then
\* the identity decoded from the current access token.
C13_UserIsIdentityOfToken ==
  (mounted /\ ~InitializeRunning) =>
    /\ user # Null <=> Decodes(accessToken)
    /\ user # Null => user = parseUserFromToken(accessToken)

\* The value isTokenExpired has for token tok when computed at time t.
TokenExpiredAt(tok, t) ==
  IF ~Decodes(tok) THEN TRUE ELSE t >= tok.payload.exp * 1000 - ExpiryBufferMs

\* The completions of the initialize() run `by` logged after position i.
CompletedAfter(i, by) == {j \in Events("initialize") : j > i /\ ev[j].by = by}

\* C14: initialize() always completes without an error, and no redirect is
\* issued in a task it runs in.  Without an access token it completes at once
\* and changes nothing; with a token that is not expired it completes at once
\* having set the user decoded from it; with an expired one it calls
\* refreshAccessToken(), and when that failed the access token, refresh token
\* and user are all absent when it completes.
C14_InitializeOutcomes ==
  /\ \A j \in Events("initialize") :
       /\ ev[j].out = "ok"
       /\ ev[j].refreshed = "fail" => ev[j].post = NoSession
  /\ Events("initialize") \cup Events("initializeCall") # {} => Events("navigateTo") = {}
  /\ \A i \in Events("initializeCall") :
       LET pre == ev[i].pre
       IN CASE pre.accessToken = Null ->
                 \E j \in CompletedAfter(i, ev[i].by) :
                   ev[j].refreshed = "no" /\ ev[j].post = pre
            [] pre.accessToken # Null /\ ~TokenExpiredAt(pre.accessToken, Times[now]) ->
                 \E j \in CompletedAfter(i, ev[i].by) :
                   /\ ev[j].refreshed = "no"
                   /\ ev[j].post = [pre EXCEPT !.user = parseUserFromToken(pre.accessToken)]
            [] OTHER ->
                 \E k \in Events("refreshAccessToken") :
                   k > i /\ ev[k].phase = "call" /\ ev[k].by = ev[i].by

\* C14 witness: an initialize() completes after the refresh it awaited was
\* answered with a failure, while another session value was there to clear.
C14_Witness ==
  \E j \in Events("initialize") :
    /\ ev[j].refreshed = "fail"
    /\ \E k \in Events("refreshAccessToken") :
         /\ k < j /\ ev[k].phase = "settle" /\ ev[k].by = ev[j].by
         /\ ev[k].out = "fail" /\ ev[k].post # NoSession

\* C15: every request the gateway dispatches carries Authorization: Bearer
\* <the access token of that moment>, Content-Type: application/json unless
\* the caller gave a Content-Type of its own, and every header the caller gave.
C15_DispatchHeaders ==
  \A i \in Events("dispatch") :
    LET h == ev[i].headers
        o == ev[i].options.headers
        own == IF o = Undefined THEN {} ELSE DOMAIN o
    IN /\ "Authorization" \in DOMAIN h
       /\ h.Authorization = Bearer(ev[i].at.accessToken)
       /\ "ContentType" \in DOMAIN h
       /\ "ContentType" \notin own => h.ContentType = "application/json"
       /\ \A k \in own : k \in DOMAIN h /\ h[k] = o[k]

\* The refresh that call c started for the shared handle has failed.
CoordinatorRefreshFailed(c) == calls[c].leader = c /\ calls[c].refreshOutcome = "fail"

\* Call c was answered 401 and its error hook has run to its end.
Rejected401(c) == calls[c].pc = "rejected" /\ calls[c].error = FetchError(401)

\* What login, logout, refreshAccessToken and initialize did in the last task
\* when called by a page or by useAuth() itself, not by the gateway.
PageEvents ==
  {i \in DOMAIN ev :
     /\ ev[i].e \in {"login", "logout", "refreshAccessToken", "initialize", "initializeCall"}
     /\ ev[i].by.who \in {"caller", "initialize"}}

Got401(c) == calls[c].pc = "awaitLogout" \/ Rejected401(c)

\* The logout() calls and redirects made for call c by its pre-dispatch hook.
HookLogouts(c) == calls[c].logouts - (IF Got401(c) THEN 1 ELSE 0)

HookRedirects(c) == calls[c].redirects - (IF Rejected401(c) THEN 1 ELSE 0)

\* C17: for a coordinator refresh that failed, the pre-dispatch hook of the
\* call that started it has called logout() once and redirected once; the
\* hooks of the calls that only waited, and of calls whose refresh did not
\* fail, have done neither.
C17_OneLogoutOneRedirectPerFailedRefresh ==
  \A c \in Calls :
    IF CoordinatorRefreshFailed(c)
    THEN HookLogouts(c) = 1 /\ HookRedirects(c) = 1
    ELSE HookLogouts(c) = 0 /\ HookRedirects(c) = 0

\* C17 witness: a coordinator refresh has failed that another call waited on too.
C17_Witness ==
  \E l, c \in Calls :
    /\ c # l /\ CoordinatorRefreshFailed(l) /\ calls[c].leader = l
    /\ calls[c].sent = 1

\* The calls whose coordinator refresh has been started and has not settled:
\* its response is outstanding, or its failure is still to be handled.
PendingCoordinatorRefreshes ==
  {m.by.id : m \in {x \in net : x.kind = "refresh" /\ x.by.who = "refreshQueue"}}
    \cup {micro[i].by : i \in {k \in DOMAIN micro : micro[k].k = "refreshQueueSettle"}}

\* C18: refreshQueue is set exactly while a coordinator refresh is started and
\* not settled, and then names that refresh; a call waits only on the handle
\* that is set, and a call that started a refresh is its own coordinator while
\* and only while the handle names it.
C18_HandleSetWhileRefreshPending ==
  /\ PendingCoordinatorRefreshes = IF refreshQueue = 0 THEN {} ELSE {refreshQueue}
  /\ \A c \in Calls :
       /\ calls[c].pc = "awaitRefresh" => (refreshQueue # 0 /\ calls[c].leader = refreshQueue)
       /\ calls[c].leader = c => (calls[c].refreshOutcome = "pending" <=> refreshQueue = c)
       /\ calls[c].leader # 0 => calls[calls[c].leader].leader = calls[c].leader

\* C18 witness: after the handle of one refresh was cleared, a later call that
\* found the token expired has started a refresh of its own.
C18_Witness ==
  \E l, c \in Calls :
    /\ l < c /\ calls[l].leader = l /\ RefreshSettled(l)
    /\ refreshQueue = c /\ calls[c].pc = "awaitRefresh"

\* C19: a refreshAccessToken() that succeeds has, in the one task that
\* handles the response, made the response's token the access token and its
\* decoded identity the user, returns that token, and leaves the refresh
\* token as it was.
C19_RefreshSuccessReplacesTokenAndUser ==
  \A i \in Events("refreshAccessToken") :
    (ev[i].phase = "settle" /\ ev[i].out = "ok") =>
      /\ ev[i].resp.ok /\ ev[i].error = NoExc
      /\ ev[i].post.accessToken = ev[i].resp.accessToken
      /\ ev[i].post.user = parseUserFromToken(ev[i].resp.accessToken)
      /\ ev[i].post.refreshToken = ev[i].pre.refreshToken
      /\ ev[i].returned = ev[i].resp.accessToken

\* C19 witness: a refresh succeeds and replaces a user by another identity.
C19_Witness ==
  \E i \in Events("refreshAccessToken") :
    /\ ev[i].phase = "settle" /\ ev[i].out = "ok"
    /\ ev[i].pre.user # Null /\ ev[i].pre.refreshToken # Null
    /\ ev[i].post.user # ev[i].pre.user
    /\ ev[i].post.accessToken # ev[i].pre.accessToken

\* The runs of the request of gateway call c: the first and its retries.
Attempts(c) == {a \in Calls : a = c \/ calls[a].retryOf = c}

\* C20: the request of a gateway call is dispatched at most once, all its runs
\* taken together, and the call has waited on at most one refresh; after an
\* error response it is not run again.
C20_AtMostOneDispatchPerCall ==
  \A c \in Calls :
    calls[c].retryOf = 0 =>
      /\ \A a \in Attempts(c) : calls[a].sent <= 1
      /\ Cardinality({a \in Attempts(c) : calls[a].sent > 0}) <= 1
      /\ Cardinality({a \in Attempts(c) : calls[a].leader # 0}) <= 1
      /\ calls[c].pc # "retried"

\* C21: initialize() is started by the first useAuth() only: a task in which
\* an initialize() run starts is the task of the one useAuth() call so far.
C21_InitializeRunsOnce ==
  Events("initializeCall") # {} => Cardinality(Instances) = 1

\* C22: from the completion of a logout() until a login() succeeds, the
\* access token and the user are absent.
C22_LoggedOutStaysLoggedOut ==
  loggedOut => (accessToken = Null /\ user = Null)

\* C23: whenever the gateway dispatches a request the access token is present.
C23_NeverDispatchedWithoutToken ==
  \A i \in Events("dispatch") : ev[i].at.accessToken # Null

\* C24: whenever a redirect to /signin is issued, the access token, the
\* refresh token and the user are absent.
C24_RedirectAfterLogoutCompleted ==
  \A i \in Events("navigateTo") : ev[i].at = NoSession

\* A gateway call that has been made and has not yet returned to its caller.
Unsettled(c) == calls[c].pc \in {"awaitRefresh", "inflight", "awaitLogout"}

Settled(c) == calls[c].pc \in {"resolved", "rejected"}

\* C25: when every request is answered, every gateway call that was made
\* returns a result or an error to its caller, and the refresh handle, once
\* set, becomes empty again.  A call that has returned stays returned and a
\* run makes finitely many calls, so this is: from some point on no call is
\* unsettled and the handle is empty.
C25_EveryCallSettles ==
  <>[]((\A c \in Calls : ~Unsettled(c)) /\ refreshQueue = 0)

\* C25 witness: a call that waited on a handle another call had set has
\* returned, and the handle is empty.
C25_Witness ==
  \E c \in Calls :
    /\ calls[c].leader \notin {0, c}
    /\ Settled(c) /\ refreshQueue = 0

\* A login(), logout() or initialize() has started and has not completed.
InProgress ==
  \/ \E m \in net : m.kind \in {"login", "logout"}
  \/ InitializeRunning

\* C26: loading is true exactly while a login(), logout() or initialize() is
\* in progress.
C26_LoadingWhileInProgress ==
  loading <=> InProgress

\* C27: every call of a useApi() method that has run to its end has returned
\* its response object, with pending false; when useFetch gave an error or
\* threw, that error is the response's error and its data is null, and
\* otherwise the data is what useFetch gave and the error is null.
C27_UseApiNeverFails ==
  \A i \in ApiCalls :
    api[i].pc \notin {"idle", "awaiting"} =>
      /\ api[i].pc = "returned" /\ api[i].exc = Null
      /\ api[i].response.pending = FALSE
      /\ LET f == api[i].fetched
             err == IF f.thrown # Null THEN f.thrown ELSE f.error
         IN IF err # Null
            THEN api[i].response.error = err /\ api[i].response.data = Null
            ELSE api[i].response.error = Null /\ api[i].response.data = f.data

\* C27 witness: both kinds of failure have been returned as results, one by
\* patch and one by another method.
C27_Witness ==
  \E i, j \in ApiCalls :
    /\ api[i].pc = "returned" /\ api[j].pc = "returned"
    /\ api[i].method = "PATCH" /\ api[j].method # "PATCH"
    /\ api[i].fetched.error # Null /\ api[j].fetched.thrown # Null

\* What the progress of C25 rests on, as a state invariant: a call awaiting
\* the refresh handle awaits the handle that is set, whose refresh is
\* outstanding, and a call awaiting its logout has that logout outstanding.
WaitersHaveWork ==
  \A c \in Calls :
    /\ calls[c].pc = "awaitRefresh" =>
         /\ refreshQueue # 0 /\ calls[c].leader = refreshQueue
         /\ PendingCoordinatorRefreshes = {refreshQueue}
    /\ calls[c].pc = "awaitLogout" =>
         \E m \in net : m.kind = "logout" /\ m.by = [who |-> "onResponseError", id |-> c]


====
